---- MODULE Spec2Model ----
(***************************************************************************)
(* A model of g10/build-packet.c: the packet header codec, the primitive   *)
(* writers, the per-packet-type encoders, the dispatcher build_packet,     *)
(* calc_packet_length, and the signature subpacket builder                 *)
(* (find_subpkt, build_sig_subpkt).                                        *)
(*                                                                         *)
(* A u32 is kept as a pair <<hi, lo>> of 16-bit halves (value hi*65536+lo),*)
(* so that the full 32-bit range and its wrap-around are represented.      *)
(* A byte count that may exceed 32 bits is a pair of the same shape whose  *)
(* hi half is unbounded.                                                   *)
(***************************************************************************)
EXTENDS Integers, Sequences, FiniteSets, TLC

VARIABLES
    out,    \* the real sink
    last,   \* the last call: its name, arguments and results
    fatal,  \* the fatal condition (log_bug, assert) the process ended in, or "none"
    sig,    \* the signature whose subpacket regions are built
    hist,   \* the subpackets inserted so far (not a value of the program)
    calls   \* the number of calls made

vars == <<out, last, fatal, sig, hist, calls>>

----------------------------------------------------------------------------
(* 32-bit unsigned arithmetic on pairs of 16-bit halves *)

Half == 256 * 256

u32_of(n) == <<(n \div Half) % Half, n % Half>>

u32_add(x, y) ==
    LET lo == x[2] + y[2]
    IN  <<(x[1] + y[1] + (lo \div Half)) % Half, lo % Half>>

u32_lt(x, n) ==
    \/ x[1] < n \div Half
    \/ x[1] = n \div Half /\ x[2] < n % Half

u32_shr8(x)  == (x[1] * 256) + (x[2] \div 256)
u32_shr16(x) == x[1]
u32_shr24(x) == x[1] \div 256

(* exact byte counts: hi is not reduced *)
wide_add(x, y) ==
    LET lo == x[2] + y[2]
    IN  <<x[1] + y[1] + (lo \div Half), lo % Half>>

wide_of(n) == <<n \div Half, n % Half>>

----------------------------------------------------------------------------
(* Strict(x, F) is F(x) with x evaluated once: the value of a call is bound  *)
(* before the next statement uses it, as the statements of the source do.   *)
Strict(x, F(_)) == CHOOSE r \in {F(v) : v \in {x}} : TRUE

(* The byte sink (IOBUF).  buf: the bytes written one by one or as blocks; *)
(* nbody: the count of bytes streamed through from a body source (their    *)
(* content is opaque); ops: the write operations attempted so far;         *)
(* mode/at: which write operations fail ("none": never, "once": only the   *)
(* at-th, "sticky": the at-th and every later one); failed: the number of  *)
(* writes that failed; blk: the block-mode framing calls with the byte     *)
(* position at which each happened.                                        *)

NewSink(mode, at) ==
    [buf |-> <<>>, nbody |-> <<0, 0>>, ops |-> 0, mode |-> mode, at |-> at,
     failed |-> 0, blk |-> <<>>]

SinkTotal(s) == wide_add(s.nbody, wide_of(Len(s.buf)))

WillFail(s) ==
    \/ s.mode = "sticky" /\ s.ops + 1 >= s.at
    \/ s.mode = "once" /\ s.ops + 1 = s.at

(* iobuf_put: the sink after the call, and the call's return value *)
iobuf_put(s, b) ==
    Strict(s, LAMBDA t :
        IF WillFail(t)
        THEN [t EXCEPT !.ops = @ + 1, !.failed = @ + 1]
        ELSE [t EXCEPT !.ops = @ + 1, !.buf = Append(@, b % 256)])

iobuf_put_rc(s) == Strict(s, LAMBDA t : IF WillFail(t) THEN -1 ELSE 0)

(* iobuf_write: a block of bytes in one operation *)
iobuf_write(s, bytes) ==
    Strict(s, LAMBDA t :
        IF WillFail(t)
        THEN [t EXCEPT !.ops = @ + 1, !.failed = @ + 1]
        ELSE [t EXCEPT !.ops = @ + 1, !.buf = @ \o bytes])

iobuf_write_rc(s) == Strict(s, LAMBDA t : IF WillFail(t) THEN -1 ELSE 0)

(* A staging buffer (iobuf_temp) lives in memory and its writes never fail: *)
(* it is the sequence of the bytes written to it, and a write to it is     *)
(* the concatenation of the bytes the write appends (put, put_16, put_32,  *)
(* mpi_bytes below).                                                       *)
iobuf_get_temp_length(a) == u32_of(Len(a))

iobuf_write_temp(s, a) == iobuf_write(s, a)

put(b) == <<b % 256>>

put_16(a) == <<(a \div 256) % 256, a % 256>>

put_32(a) ==
    <<u32_shr24(a) % 256, u32_shr16(a) % 256, u32_shr8(a) % 256, a[2] % 256>>

mpi_bytes(m) == m

iobuf_set_block_mode(s, n) ==
    Strict(s, LAMBDA t :
        [t EXCEPT !.blk = Append(@, [size |-> n, at |-> SinkTotal(t)])])

(* a loop of iobuf_put over the bytes of a sequence *)
RECURSIVE put_each(_, _)
put_each(s, bytes) ==
    IF bytes = <<>> THEN s ELSE put_each(iobuf_put(s, Head(bytes)), Tail(bytes))

----------------------------------------------------------------------------
(* Primitive writers (on a sink whose writes may fail) *)

write_16(s, a) ==
    iobuf_put(iobuf_put(s, a \div 256), a)

write_16_rc(s, a) ==
    IF iobuf_put_rc(iobuf_put(s, a \div 256)) # 0 THEN -1 ELSE 0

write_32(s, a) ==
    iobuf_put(iobuf_put(iobuf_put(iobuf_put(s, u32_shr24(a)), u32_shr16(a)),
                        u32_shr8(a)), a[2])

write_32_rc(s, a) ==
    IF iobuf_put_rc(iobuf_put(iobuf_put(iobuf_put(s, u32_shr24(a)),
                                        u32_shr16(a)), u32_shr8(a))) # 0
    THEN -1 ELSE 0

write_version(ctb) == put(3)

calc_header_length(len) ==
    IF len = <<0, 0>> THEN 1
    ELSE IF u32_lt(len, 256) THEN 2
    ELSE IF u32_lt(len, 65536) THEN 3
    ELSE 5

----------------------------------------------------------------------------
(* Header codec.  Each writer yields the sink after the call, the return   *)
(* value and the fatal condition (log_bug) it ended in, if any.            *)

(* bitwise or of the two low bits of ctb with k (0..3) *)
ctb_or(ctb, k) ==
    LET lo == ctb % 4
        b0 == IF lo % 2 = 1 \/ k % 2 = 1 THEN 1 ELSE 0
        b1 == IF (lo \div 2) % 2 = 1 \/ (k \div 2) % 2 = 1 THEN 2 ELSE 0
    IN  (ctb \div 4) * 4 + b1 + b0

(* a sequence of "if( iobuf_put(out, b) ) return -1;" statements *)
RECURSIVE put_checked(_, _)
put_checked(s, bytes) ==
    Strict(s, LAMBDA t :
        IF bytes = <<>> THEN [s |-> t, rc |-> 0, fatal |-> "none"]
        ELSE IF iobuf_put_rc(t) # 0
             THEN [s |-> iobuf_put(t, Head(bytes)), rc |-> -1, fatal |-> "none"]
             ELSE put_checked(iobuf_put(t, Head(bytes)), Tail(bytes)))

(* the two-byte form applied to every len from 192 on: a length of 8384 or *)
(* more loses its high bits                                                *)
new_length_bytes_two(len) ==
    IF u32_lt(len, 192)
    THEN <<len[2]>>
    ELSE <<(((len[2] - 192) \div 256) + 192) % 256, (len[2] - 192) % 256>>

(* the length bytes of a new-format header, len > 0 *)
new_length_bytes(len) ==
    IF u32_lt(len, 192)
    THEN <<len[2]>>
    ELSE IF u32_lt(len, 8384)
    THEN <<((len[2] - 192) \div 256) + 192, (len[2] - 192) % 256>>
    ELSE <<255, u32_shr24(len) % 256, u32_shr16(len) % 256,
           u32_shr8(len) % 256, len[2] % 256>>

write_new_header(s, ctb, len, hdrlen) ==
    Strict(s, LAMBDA t :
        IF hdrlen # 0
        THEN [s |-> t, rc |-> 0, fatal |-> "can't cope with hdrlen yet"]
        ELSE IF iobuf_put_rc(t) # 0
        THEN [s |-> iobuf_put(t, ctb), rc |-> -1, fatal |-> "none"]
        ELSE IF len = <<0, 0>>
        THEN [s |-> iobuf_put(t, ctb), rc |-> 0,
              fatal |-> "can't write partial headers yet"]
        ELSE put_checked(iobuf_put(t, ctb), new_length_bytes(len)))

(* the selector chosen from len alone, whatever width is asked for *)
old_ctb_unforced(ctb, len, hdrlen) ==
    IF len = <<0, 0>> THEN ctb_or(ctb, 3)
    ELSE IF u32_lt(len, 256) THEN ctb
    ELSE IF u32_lt(len, 65536) THEN ctb_or(ctb, 1)
    ELSE ctb_or(ctb, 2)

(* the old-format ctb with the length-type bits merged in *)
old_ctb(ctb, len, hdrlen) ==
    IF hdrlen # 0
    THEN IF len = <<0, 0>> THEN ctb_or(ctb, 3)
         ELSE IF hdrlen = 2 /\ u32_lt(len, 256) THEN ctb
         ELSE IF hdrlen = 3 /\ u32_lt(len, 65536) THEN ctb_or(ctb, 1)
         ELSE ctb_or(ctb, 2)
    ELSE IF len = <<0, 0>> THEN ctb_or(ctb, 3)
         ELSE IF u32_lt(len, 256) THEN ctb
         ELSE IF u32_lt(len, 65536) THEN ctb_or(ctb, 1)
         ELSE ctb_or(ctb, 2)

(* the length bytes of an old-format header, written without a check but   *)
(* for the last                                                            *)
old_length_bytes(s, c, len) ==
    Strict(IF (c \div 2) % 2 = 1
           THEN iobuf_put(iobuf_put(s, u32_shr24(len)), u32_shr16(len))
           ELSE s,
      LAMBDA s2 :
        Strict(IF c % 4 # 0 THEN iobuf_put(s2, u32_shr8(len)) ELSE s2,
          LAMBDA s3 :
            [s |-> iobuf_put(s3, len[2]),
             rc |-> IF iobuf_put_rc(s3) # 0 THEN -1 ELSE 0,
             fatal |-> "none"]))

write_header2(s, ctb, len, hdrlen, blkmode) ==
    IF (ctb \div 64) % 2 = 1
    THEN write_new_header(s, ctb, len, hdrlen)
    ELSE Strict(<<s, old_ctb(ctb, len, hdrlen)>>, LAMBDA v :
           IF iobuf_put_rc(v[1]) # 0
           THEN [s |-> iobuf_put(v[1], v[2]), rc |-> -1, fatal |-> "none"]
           ELSE IF len = <<0, 0>>
           THEN [s |-> IF blkmode # 0
                       THEN iobuf_set_block_mode(iobuf_put(v[1], v[2]), 8196)
                       ELSE iobuf_put(v[1], v[2]),
                 rc |-> 0, fatal |-> "none"]
           ELSE old_length_bytes(iobuf_put(v[1], v[2]), v[2], len))

write_header(s, ctb, len) == write_header2(s, ctb, len, 0, 1)

----------------------------------------------------------------------------
(* Packet types, public-key algorithms and error codes (packet.h, cipher.h, *)
(* errors.h)                                                                *)

PKT_PUBKEY_ENC     == 1
PKT_SIGNATURE      == 2
PKT_SYMKEY_ENC     == 3
PKT_ONEPASS_SIG    == 4
PKT_SECRET_CERT    == 5
PKT_PUBLIC_CERT    == 6
PKT_SECKEY_SUBCERT == 7
PKT_COMPRESSED     == 8
PKT_ENCRYPTED      == 9
PKT_PLAINTEXT      == 11
PKT_RING_TRUST     == 12
PKT_USER_ID        == 13
PKT_PUBKEY_SUBCERT == 14
PKT_OLD_COMMENT    == 16
PKT_COMMENT        == 61

PUBKEY_ALGO_RSA       == 1
PUBKEY_ALGO_RSA_E     == 2
PUBKEY_ALGO_RSA_S     == 3
PUBKEY_ALGO_ELGAMAL_E == 16
PUBKEY_ALGO_DSA       == 17
PUBKEY_ALGO_ELGAMAL   == 20

G10ERR_PUBKEY_ALGO == 4
G10ERR_WRITE_FILE  == 22

is_RSA(a) ==
    a = PUBKEY_ALGO_RSA \/ a = PUBKEY_ALGO_RSA_E \/ a = PUBKEY_ALGO_RSA_S

is_ELGAMAL(a) == a = PUBKEY_ALGO_ELGAMAL \/ a = PUBKEY_ALGO_ELGAMAL_E

----------------------------------------------------------------------------
(* Per-packet-type encoders.  Each yields the real sink after the call, the *)
(* return value, the fatal condition (log_bug) it ended in if any, the      *)
(* number of staging buffers it opened (iobuf_temp) and closed              *)
(* (iobuf_close), and whether log_error was called.                         *)

Result(s, rc, ftl, opened, closed, diag) ==
    [s |-> s, rc |-> rc, fatal |-> ftl, opened |-> opened, closed |-> closed,
     diag |-> diag]

do_comment(s, ctb, rem, no_comment) ==
    IF ~no_comment
    THEN Strict(write_header(s, ctb, u32_of(Len(rem.data))), LAMBDA h :
           IF h.fatal # "none"
           THEN Result(h.s, 0, h.fatal, 0, 0, FALSE)
           ELSE Result(iobuf_write(h.s, rem.data),
                       IF iobuf_write_rc(h.s) # 0 THEN G10ERR_WRITE_FILE ELSE 0,
                       "none", 0, 0, FALSE))
    ELSE Result(s, 0, "none", 0, 0, FALSE)

do_user_id(s, ctb, uid) ==
    Strict(write_header(s, ctb, u32_of(Len(uid.name))), LAMBDA h :
      IF h.fatal # "none"
      THEN Result(h.s, 0, h.fatal, 0, 0, FALSE)
      ELSE Result(iobuf_write(h.s, uid.name),
                  IF iobuf_write_rc(h.s) # 0 THEN G10ERR_WRITE_FILE ELSE 0,
                  "none", 0, 0, FALSE))

(* a tail that returns on a failed flush without reaching label leave *)
flush_staged_leak(s, ctb, a, hdrlen) ==
    Strict(write_header2(s, ctb, iobuf_get_temp_length(a), hdrlen, 1), LAMBDA h :
      IF h.fatal # "none"
      THEN Result(h.s, 0, h.fatal, 1, 0, FALSE)
      ELSE Result(iobuf_write_temp(h.s, a),
                  IF iobuf_write_rc(h.s) # 0 THEN G10ERR_WRITE_FILE ELSE 0,
                  "none", 1, IF iobuf_write_rc(h.s) # 0 THEN 0 ELSE 1, FALSE))

(* the common tail of the staging encoders: header from the staged length, *)
(* the staged bytes, then (label leave) the release of the staging buffer   *)
flush_staged(s, ctb, a, hdrlen) ==
    Strict(write_header2(s, ctb, iobuf_get_temp_length(a), hdrlen, 1), LAMBDA h :
      IF h.fatal # "none"
      THEN Result(h.s, 0, h.fatal, 1, 0, FALSE)
      ELSE Result(iobuf_write_temp(h.s, a),
                  IF iobuf_write_rc(h.s) # 0 THEN G10ERR_WRITE_FILE ELSE 0,
                  "none", 1, 1, FALSE))

(* an unknown algorithm noticed only after the ctb has gone to the sink *)
leave_unknown_algo_late(s) ==
    Result(iobuf_put(s, 128), G10ERR_PUBKEY_ALGO, "none", 1, 1, FALSE)

(* rc = G10ERR_PUBKEY_ALGO; goto leave; *)
leave_unknown_algo(s) == Result(s, G10ERR_PUBKEY_ALGO, "none", 1, 1, FALSE)

do_public_cert(s, ctb, pkc) ==
    LET a == put(IF pkc.version = 0 THEN 3 ELSE pkc.version)
               \o put_32(pkc.timestamp)
               \o (IF pkc.version < 4 THEN put_16(pkc.valid_days) ELSE <<>>)
               \o put(pkc.pubkey_algo)
    IN  IF is_ELGAMAL(pkc.pubkey_algo)
        THEN flush_staged(s, ctb,
                 a \o mpi_bytes(pkc.d.p) \o mpi_bytes(pkc.d.g) \o mpi_bytes(pkc.d.y),
                 pkc.hdrbytes)
        ELSE IF pkc.pubkey_algo = PUBKEY_ALGO_DSA
        THEN flush_staged(s, ctb,
                 a \o mpi_bytes(pkc.d.p) \o mpi_bytes(pkc.d.q)
                   \o mpi_bytes(pkc.d.g) \o mpi_bytes(pkc.d.y),
                 pkc.hdrbytes)
        ELSE IF is_RSA(pkc.pubkey_algo)
        THEN flush_staged(s, ctb, a \o mpi_bytes(pkc.d.n) \o mpi_bytes(pkc.d.e),
                          pkc.hdrbytes)
        ELSE leave_unknown_algo(s)

(* the protection descriptor of an Elgamal or DSA secret certificate *)
put_protection(skc) ==
    IF skc.is_protected
    THEN put(255) \o put(skc.protect.algo) \o put(skc.protect.s2k.mode)
           \o put(skc.protect.s2k.hash_algo)
           \o (IF skc.protect.s2k.mode = 1 \/ skc.protect.s2k.mode = 4
               THEN skc.protect.s2k.salt ELSE <<>>)
           \o (IF skc.protect.s2k.mode = 4
               THEN put_32(skc.protect.s2k.count) ELSE <<>>)
           \o skc.protect.iv
    ELSE put(0)

do_secret_cert(s, ctb, skc) ==
    LET a == put(IF skc.version = 0 THEN 3 ELSE skc.version)
               \o put_32(skc.timestamp)
               \o (IF skc.version < 4 THEN put_16(skc.valid_days) ELSE <<>>)
               \o put(skc.pubkey_algo)
    IN  IF is_ELGAMAL(skc.pubkey_algo)
        THEN flush_staged(s, ctb,
                 a \o mpi_bytes(skc.d.p) \o mpi_bytes(skc.d.g) \o mpi_bytes(skc.d.y)
                   \o put_protection(skc)
                   \o mpi_bytes(skc.d.x) \o put_16(skc.csum),
                 skc.hdrbytes)
        ELSE IF skc.pubkey_algo = PUBKEY_ALGO_DSA
        THEN flush_staged(s, ctb,
                 a \o mpi_bytes(skc.d.p) \o mpi_bytes(skc.d.q)
                   \o mpi_bytes(skc.d.g) \o mpi_bytes(skc.d.y)
                   \o put_protection(skc)
                   \o mpi_bytes(skc.d.x) \o put_16(skc.csum),
                 skc.hdrbytes)
        ELSE IF is_RSA(skc.pubkey_algo)
        THEN flush_staged(s, ctb,
                 a \o mpi_bytes(skc.d.n) \o mpi_bytes(skc.d.e)
                   \o (IF skc.is_protected
                       THEN put(skc.protect.algo) \o skc.protect.iv
                       ELSE put(0))
                   \o mpi_bytes(skc.d.d) \o mpi_bytes(skc.d.p)
                   \o mpi_bytes(skc.d.q) \o mpi_bytes(skc.d.u)
                   \o put_16(skc.csum),
                 skc.hdrbytes)
        ELSE leave_unknown_algo(s)

do_symkey_enc(s, ctb, enc) ==
    IF enc.version # 4
    THEN Result(s, 0, "assert( enc->version == 4 )", 1, 0, FALSE)
    ELSE IF enc.s2k.mode \notin {0, 1, 4}
    THEN Result(s, 0, "do_symkey_enc: s2k", 1, 0, FALSE)
    ELSE flush_staged(s, ctb,
             put(enc.version) \o put(enc.cipher_algo) \o put(enc.s2k.mode)
               \o put(enc.s2k.hash_algo)
               \o (IF enc.s2k.mode = 1 \/ enc.s2k.mode = 4
                   THEN enc.s2k.salt
                          \o (IF enc.s2k.mode = 4 THEN put_32(enc.s2k.count)
                                                  ELSE <<>>)
                   ELSE <<>>)
               \o (IF Len(enc.seskey) # 0 THEN enc.seskey ELSE <<>>),
             0)

do_pubkey_enc(s, ctb, enc) ==
    LET a == write_version(ctb) \o put_32(enc.keyid[1]) \o put_32(enc.keyid[2])
               \o put(enc.pubkey_algo)
    IN  IF is_ELGAMAL(enc.pubkey_algo)
        THEN flush_staged(s, ctb, a \o mpi_bytes(enc.d.a) \o mpi_bytes(enc.d.b), 0)
        ELSE IF is_RSA(enc.pubkey_algo)
        THEN flush_staged(s, ctb, a \o mpi_bytes(enc.d.rsa_integer), 0)
        ELSE leave_unknown_algo(s)

calc_plaintext(pt) ==
    IF pt.len # <<0, 0>>
    THEN u32_add(u32_of(1 + 1 + pt.namelen + 4), pt.len)
    ELSE <<0, 0>>

(* the number of iobuf_read calls that return data, for a body source that *)
(* yields src bytes in chunks of 1000                                      *)
chunk_count(src) ==
    LET q1 == src[1] \div 1000
        t  == (src[1] % 1000) * Half + src[2]
    IN  q1 * Half + (t \div 1000) + (IF t % 1000 > 0 THEN 1 ELSE 0)

(* the body loop of do_plaintext: every chunk read from the source is      *)
(* written with one iobuf_write; the loop ends at end of stream or at the  *)
(* first failed write.  The effect of the K = chunk_count(src) iterations  *)
(* is computed in one step: f is the iteration whose write fails (0: none).*)
stream_body(s, src) ==
    Strict(<<s, chunk_count(src)>>, LAMBDA v :
      LET t == v[1]
          K == v[2]
          d == t.at - t.ops
          f == IF K = 0 \/ t.mode = "none" THEN 0
               ELSE IF t.mode = "sticky"
                    THEN (IF d <= 1 THEN 1 ELSE IF d <= K THEN d ELSE 0)
                    ELSE (IF d >= 1 /\ d <= K THEN d ELSE 0)
      IN  IF f = 0
          THEN [s |-> [t EXCEPT !.ops = @ + K, !.nbody = wide_add(@, src)],
                n |-> src, failed |-> FALSE]
          ELSE [s |-> [t EXCEPT !.ops = @ + f, !.failed = @ + 1,
                                !.nbody = wide_add(@, wide_of((f - 1) * 1000))],
                n |-> u32_of((f - 1) * 1000), failed |-> TRUE])

do_plaintext(s, ctb, pt) ==
    Strict(write_header(s, ctb, calc_plaintext(pt)), LAMBDA h :
      IF h.fatal # "none"
      THEN Result(h.s, 0, h.fatal, 0, 0, FALSE)
      ELSE
        Strict(put_each(iobuf_put(iobuf_put(h.s, pt.mode), pt.namelen), pt.name),
          LAMBDA s3 :
            Strict(stream_body(write_32(s3, pt.timestamp), pt.src), LAMBDA b :
              LET rc1 == IF write_32_rc(s3, pt.timestamp) # 0
                         THEN G10ERR_WRITE_FILE ELSE 0
                  rc  == IF b.failed THEN G10ERR_WRITE_FILE ELSE rc1
              IN  IF pt.len = <<0, 0>>
                  THEN Result(iobuf_set_block_mode(b.s, 0), rc, "none", 0, 0, FALSE)
                  ELSE Result(b.s, rc, "none", 0, 0, b.n # pt.len))))

do_encrypted(s, ctb, ed) ==
    Strict(write_header(s, ctb, IF ed.len # <<0, 0>>
                                THEN u32_add(ed.len, <<0, 10>>) ELSE <<0, 0>>),
      LAMBDA h : Result(h.s, 0, h.fatal, 0, 0, FALSE))

do_compressed(s, ctb, cd) ==
    Strict(write_header2(s, ctb, <<0, 0>>, 0, 0), LAMBDA h :
      IF h.fatal # "none"
      THEN Result(h.s, 0, h.fatal, 0, 0, FALSE)
      ELSE Result(iobuf_put(h.s, cd.algorithm), 0, "none", 0, 0, FALSE))

(* the declared length of a subpacket region (0 for a null pointer) *)
region_len(data) == IF data = <<>> THEN 0 ELSE data[1] * 256 + data[2]

do_signature(s, ctb, sg) ==
    LET n1 == region_len(sg.hashed_data)
        n2 == region_len(sg.unhashed_data)
        a == put(IF sg.version = 0 THEN 3 ELSE sg.version)
               \o (IF sg.version < 4 THEN put(5) ELSE <<>>)
               \o put(sg.sig_class)
               \o (IF sg.version < 4
                   THEN put_32(sg.timestamp) \o put_32(sg.keyid[1])
                          \o put_32(sg.keyid[2])
                   ELSE <<>>)
               \o put(sg.pubkey_algo) \o put(sg.digest_algo)
               \o (IF sg.version >= 4
                   THEN put_16(n1)
                          \o (IF n1 # 0 THEN SubSeq(sg.hashed_data, 3, n1 + 2)
                                        ELSE <<>>)
                          \o put_16(n2)
                          \o (IF n2 # 0 THEN SubSeq(sg.unhashed_data, 3, n2 + 2)
                                        ELSE <<>>)
                   ELSE <<>>)
               \o put(sg.digest_start[1]) \o put(sg.digest_start[2])
    IN  IF is_ELGAMAL(sg.pubkey_algo)
        THEN flush_staged(s, ctb, a \o mpi_bytes(sg.d.a) \o mpi_bytes(sg.d.b), 0)
        ELSE IF sg.pubkey_algo = PUBKEY_ALGO_DSA
        THEN flush_staged(s, ctb, a \o mpi_bytes(sg.d.r) \o mpi_bytes(sg.d.s), 0)
        ELSE IF is_RSA(sg.pubkey_algo)
        THEN flush_staged(s, ctb, a \o mpi_bytes(sg.d.rsa_integer), 0)
        ELSE leave_unknown_algo(s)

do_onepass_sig(s, ctb, ops) ==
    flush_staged(s, ctb,
        write_version(ctb) \o put(ops.sig_class) \o put(ops.digest_algo)
          \o put(ops.pubkey_algo) \o put_32(ops.keyid[1]) \o put_32(ops.keyid[2])
          \o put(ops.last),
        0)

----------------------------------------------------------------------------
(* Dispatcher and length precomputation *)

build_packet(s, pkt, no_comment) ==
    LET pkttype == IF pkt.pkttype = PKT_OLD_COMMENT THEN PKT_COMMENT
                   ELSE pkt.pkttype
        ctb == IF pkttype > 15 THEN 192 + (pkttype % 64)
               ELSE 128 + ((pkttype % 16) * 4)
    IN  CASE pkttype = PKT_USER_ID -> do_user_id(s, ctb, pkt.pkt)
          [] pkttype = PKT_COMMENT -> do_comment(s, ctb, pkt.pkt, no_comment)
          [] pkttype \in {PKT_PUBKEY_SUBCERT, PKT_PUBLIC_CERT} ->
                 do_public_cert(s, ctb, pkt.pkt)
          [] pkttype \in {PKT_SECKEY_SUBCERT, PKT_SECRET_CERT} ->
                 do_secret_cert(s, ctb, pkt.pkt)
          [] pkttype = PKT_SYMKEY_ENC -> do_symkey_enc(s, ctb, pkt.pkt)
          [] pkttype = PKT_PUBKEY_ENC -> do_pubkey_enc(s, ctb, pkt.pkt)
          [] pkttype = PKT_PLAINTEXT -> do_plaintext(s, ctb, pkt.pkt)
          [] pkttype = PKT_ENCRYPTED -> do_encrypted(s, ctb, pkt.pkt)
          [] pkttype = PKT_COMPRESSED -> do_compressed(s, ctb, pkt.pkt)
          [] pkttype = PKT_SIGNATURE -> do_signature(s, ctb, pkt.pkt)
          [] pkttype = PKT_ONEPASS_SIG -> do_onepass_sig(s, ctb, pkt.pkt)
          [] OTHER -> Result(s, 0, "invalid packet type in build_packet()",
                             0, 0, FALSE)

calc_packet_length(pkt) ==
    IF pkt.pkttype = PKT_PLAINTEXT
    THEN LET n == calc_plaintext(pkt.pkt)
         IN  [n |-> u32_add(n, u32_of(calc_header_length(n))), fatal |-> "none"]
    ELSE [n |-> <<0, 0>>, fatal |-> "invalid packet type in calc_packet_length()"]

----------------------------------------------------------------------------
(* Signature subpackets.  A region is its byte sequence; the null pointer   *)
(* is the empty sequence.  Offsets are 0-based as in the source; a read     *)
(* past the end of the allocation yields the byte oob.                      *)

SIGSUBPKT_SIG_CREATED  == 2
SIGSUBPKT_ISSUER       == 16
SIGSUBPKT_PRIV_ADD_SIG == 101

At(buffer, i, oob) == IF i < Len(buffer) THEN buffer[i + 1] ELSE oob

NoMatch(kind, long) ==
    [kind |-> kind, off |-> 0, hlen |-> 0, n |-> 0, long |-> long]

(* find_subpkt's loop.  pos: the offset of the pointer buffer; buflen: the  *)
(* declared bytes left; long: a length byte >= 192 has been met (not a     *)
(* value of the program, kept for the properties).  find_entry is the loop *)
(* body from "if( buflen < n )" on, with n the decoded length (big: it     *)
(* exceeds 65535, hence any buflen).                                       *)
RECURSIVE find_loop(_, _, _, _, _, _)
find_entry(buffer, bufstart, pos, buflen, n, big, reqtype, oob, long) ==
    IF big \/ buflen < n
    THEN NoMatch("error", long)
    ELSE IF At(buffer, pos, oob) % 128 = reqtype
         THEN IF n = 0
              THEN NoMatch("error", long)
              ELSE [kind |-> "found", off |-> pos + 1,
                    hlen |-> (pos + 1) - bufstart, n |-> n - 1, long |-> long]
         ELSE Strict(<<pos + n, buflen - n>>, LAMBDA v :
                find_loop(buffer, v[1], v[2], reqtype, oob, long))

(* a scan that knows the one-byte length only *)
find_loop_short(buffer, pos, buflen, reqtype, oob, long) ==
    IF buflen = 0
    THEN NoMatch("notfound", long)
    ELSE Strict(At(buffer, pos, oob), LAMBDA n :
           IF n >= 192
           THEN NoMatch("error", TRUE)
           ELSE find_entry(buffer, pos, pos + 1, buflen - 1, n, FALSE,
                           reqtype, oob, long))

find_loop(buffer, pos, buflen, reqtype, oob, long) ==
    IF buflen = 0
    THEN NoMatch("notfound", long)
    ELSE Strict(At(buffer, pos, oob), LAMBDA n :
           IF n = 255
           THEN IF buflen - 1 < 4
                THEN NoMatch("error", TRUE)
                ELSE find_entry(buffer, pos, pos + 5, buflen - 5,
                         At(buffer, pos + 3, oob) * 256 + At(buffer, pos + 4, oob),
                         At(buffer, pos + 1, oob) # 0 \/ At(buffer, pos + 2, oob) # 0,
                         reqtype, oob, TRUE)
           ELSE IF n >= 192
           THEN IF buflen - 1 < 2
                THEN NoMatch("error", TRUE)
                ELSE find_entry(buffer, pos, pos + 1, buflen - 2,
                         (n - 192) * 256 + At(buffer, pos + 1, oob) + 192,
                         FALSE, reqtype, oob, TRUE)
           ELSE find_entry(buffer, pos, pos + 1, buflen - 1, n, FALSE,
                           reqtype, oob, long))

find_subpkt(buffer, reqtype, oob) ==
    IF buffer = <<>>
    THEN NoMatch("null", FALSE)
    ELSE find_loop(buffer, 2, buffer[1] * 256 + buffer[2], reqtype, oob, FALSE)

(* the body bytes a successful find_subpkt points at *)
found_body(buffer, r) == SubSeq(buffer, r.off + 1, r.off + r.n)

(* m_realloc / m_alloc to size bytes: the old content up to size, then      *)
(* bytes that build_sig_subpkt overwrites before anything reads them        *)
m_realloc(old, size) ==
    [i \in 1..size |-> IF i <= Len(old) THEN old[i] ELSE 0]

(* the stores into data, at 0-based offsets from n0 *)
store_subpkt(mem, n0, n, type, buffer) ==
    [i \in 1..Len(mem) |->
        IF i - 1 = n0 + 0 THEN (n \div 256) % 256
        ELSE IF i - 1 = n0 + 1 THEN n % 256
        ELSE IF i - 1 = n0 + 2 THEN (Len(buffer) + 1) % 256
        ELSE IF i - 1 = n0 + 3 THEN type % 256
        ELSE IF i - 1 >= n0 + 4 /\ i - 1 < n0 + 4 + Len(buffer)
             THEN buffer[i - (n0 + 4)]
        ELSE mem[i]]

build_sig_subpkt(sg, type, buffer, oob) ==
    LET found == IF find_subpkt(sg.hashed_data, type, oob).kind = "found" THEN 1
                 ELSE IF find_subpkt(sg.unhashed_data, type, oob).kind = "found"
                 THEN 2 ELSE 0
        buflen == Len(buffer)
        hashed == type \in {SIGSUBPKT_SIG_CREATED, SIGSUBPKT_PRIV_ADD_SIG}
        old    == IF hashed THEN sg.hashed_data ELSE sg.unhashed_data
        n0     == region_len(old)
        n      == n0 + 1 + 1 + buflen
    IN  IF found # 0
        THEN [sig |-> sg, fatal |-> "build_sig_packet: update nyi"]
        ELSE IF buflen + 1 >= 192
        THEN [sig |-> sg, fatal |-> "build_sig_packet: long subpackets are nyi"]
        ELSE Strict(<<m_realloc(old, n + 2), n0, n>>, LAMBDA v :
               Strict(store_subpkt(v[1], v[2], v[3], type, buffer), LAMBDA data :
                 [sig |-> IF hashed THEN [sg EXCEPT !.hashed_data = data]
                                    ELSE [sg EXCEPT !.unhashed_data = data],
                  fatal |-> "none"]))

build_sig_subpkt_from_sig(sg, oob) ==
    LET r1 == build_sig_subpkt(sg, SIGSUBPKT_ISSUER,
                               put_32(sg.keyid[1]) \o put_32(sg.keyid[2]), oob)
    IN  IF r1.fatal # "none" THEN r1
        ELSE build_sig_subpkt(r1.sig, SIGSUBPKT_SIG_CREATED,
                              put_32(sg.timestamp), oob)

----------------------------------------------------------------------------
(* Inputs *)

MaxCalls  == 1
MaxFailAt == 8

Sinks ==
    {NewSink("none", 0)}
      \cup {NewSink(m, k) : m \in {"once", "sticky"}, k \in 1..MaxFailAt}

T0 == <<4660, 22136>>
KeyId == <<<<57005, 48879>>, <<1, 515>>>>
Mpi1 == <<0, 9, 1, 255>>
Mpi2 == <<0, 1, 1>>
Iv8 == <<1, 2, 3, 4, 5, 6, 7, 8>>
Salt8 == <<8, 7, 6, 5, 4, 3, 2, 1>>
UnknownAlgo == {0, 99}

PubMpis == [p |-> Mpi1, q |-> Mpi2, g |-> Mpi2, y |-> Mpi1, n |-> Mpi1, e |-> Mpi2]
SecMpis == [p |-> Mpi1, q |-> Mpi2, g |-> Mpi2, y |-> Mpi1, n |-> Mpi1, e |-> Mpi2,
            x |-> Mpi2, d |-> Mpi1, u |-> Mpi2]
SigMpis == [a |-> Mpi1, b |-> Mpi2, r |-> Mpi1, s |-> Mpi2, rsa_integer |-> Mpi1]

CertAlgos == {PUBKEY_ALGO_RSA, PUBKEY_ALGO_DSA, PUBKEY_ALGO_ELGAMAL} \cup UnknownAlgo

UserIdPackets ==
    {[pkttype |-> PKT_USER_ID, pkt |-> [name |-> nm]] : nm \in {<<>>, <<65, 66>>}}

CommentPackets ==
    {[pkttype |-> t, pkt |-> [data |-> d]] :
        t \in {PKT_COMMENT, PKT_OLD_COMMENT}, d \in {<<>>, <<35, 33>>}}

PublicCertPackets ==
    {[pkttype |-> PKT_PUBLIC_CERT,
      pkt |-> [version |-> v, timestamp |-> T0, valid_days |-> 365,
               pubkey_algo |-> al, hdrbytes |-> h, d |-> PubMpis]] :
        v \in {0, 4}, al \in CertAlgos, h \in {0, 3}}
    \cup
    {[pkttype |-> PKT_PUBKEY_SUBCERT,
      pkt |-> [version |-> 4, timestamp |-> T0, valid_days |-> 0,
               pubkey_algo |-> al, hdrbytes |-> 0, d |-> PubMpis]] :
        al \in {PUBKEY_ALGO_ELGAMAL_E, 99}}

Protections ==
    {[is_protected |-> FALSE,
      protect |-> [algo |-> 0, iv |-> Iv8,
                   s2k |-> [mode |-> 0, hash_algo |-> 0, salt |-> Salt8,
                            count |-> <<0, 0>>]]]}
    \cup
    {[is_protected |-> TRUE,
      protect |-> [algo |-> 4, iv |-> Iv8,
                   s2k |-> [mode |-> m, hash_algo |-> 3, salt |-> Salt8,
                            count |-> <<1, 0>>]]] : m \in {0, 1, 4}}

SecretCertPackets ==
    {[pkttype |-> PKT_SECRET_CERT,
      pkt |-> [version |-> 3, timestamp |-> T0, valid_days |-> 0,
               pubkey_algo |-> al, hdrbytes |-> 0, d |-> SecMpis,
               is_protected |-> pr.is_protected, protect |-> pr.protect,
               csum |-> 4660]] :
        al \in CertAlgos, pr \in Protections}
    \cup
    {[pkttype |-> PKT_SECKEY_SUBCERT,
      pkt |-> [version |-> 4, timestamp |-> T0, valid_days |-> 0,
               pubkey_algo |-> al, hdrbytes |-> 2, d |-> SecMpis,
               is_protected |-> FALSE, protect |-> pr.protect, csum |-> 1]] :
        al \in {PUBKEY_ALGO_RSA_S, 99}, pr \in {p \in Protections : ~p.is_protected}}

SymkeyEncPackets ==
    {[pkttype |-> PKT_SYMKEY_ENC,
      pkt |-> [version |-> 4, cipher_algo |-> 4,
               s2k |-> [mode |-> m, hash_algo |-> 3, salt |-> Salt8,
                        count |-> <<1, 0>>],
               seskey |-> k]] :
        m \in {0, 1, 2, 4}, k \in {<<>>, <<9, 9>>}}

PubkeyEncPackets ==
    {[pkttype |-> PKT_PUBKEY_ENC,
      pkt |-> [keyid |-> KeyId, pubkey_algo |-> al, d |-> SigMpis]] :
        al \in {PUBKEY_ALGO_RSA_E, PUBKEY_ALGO_ELGAMAL_E, PUBKEY_ALGO_DSA} \cup UnknownAlgo}

(* literal data: declared length, name, and the bytes the body source yields *)
PlaintextLens ==
    {<<0, 0>>, <<0, 1>>, <<0, 248>>, <<0, 249>>, <<0, 250>>, <<0, 2500>>,
     <<0, 65529>>, <<0, 65530>>, <<32768, 0>>, <<65535, 65528>>,
     <<65535, 65529>>, <<65535, 65535>>}

(* what the body source yields: exactly the declared length, or, for some  *)
(* declared lengths, another number of bytes                               *)
PlaintextBodies(l) ==
    {l} \cup (IF l = <<0, 0>> THEN {<<0, 1>>, <<0, 2500>>}
              ELSE IF l = <<0, 2500>> THEN {<<0, 0>>, <<0, 2499>>}
              ELSE {})

PlaintextPackets ==
    {[pkttype |-> PKT_PLAINTEXT,
      pkt |-> [len |-> x[1], mode |-> 98, namelen |-> Len(nm), name |-> nm,
               timestamp |-> T0, src |-> x[2]]] :
        x \in {y \in PlaintextLens \X PlaintextLens \cup
                       (PlaintextLens \X {<<0, 1>>, <<0, 2499>>}) :
                  y[2] \in PlaintextBodies(y[1])},
        nm \in {<<>>, <<97>>}}

EncryptedPackets ==
    {[pkttype |-> PKT_ENCRYPTED, pkt |-> [len |-> l]] :
        l \in {<<0, 0>>, <<0, 5>>, <<0, 246>>, <<65535, 65530>>}}

CompressedPackets ==
    {[pkttype |-> PKT_COMPRESSED, pkt |-> [algorithm |-> al]] : al \in {1, 2}}

Hashed1 == <<0, 6, 5, 2, 18, 52, 86, 120>>
Unhashed1 == <<0, 10, 9, 16, 222, 173, 190, 239, 0, 1, 2, 3>>

SignaturePackets ==
    {[pkttype |-> PKT_SIGNATURE,
      pkt |-> [version |-> v, sig_class |-> 16, timestamp |-> T0, keyid |-> KeyId,
               pubkey_algo |-> al, digest_algo |-> 3,
               hashed_data |-> rg[1], unhashed_data |-> rg[2],
               digest_start |-> <<171, 205>>, d |-> SigMpis]] :
        v \in {0, 3, 4}, al \in CertAlgos,
        rg \in {<<<<>>, <<>>>>, <<Hashed1, Unhashed1>>}}

OnepassSigPackets ==
    {[pkttype |-> PKT_ONEPASS_SIG,
      pkt |-> [sig_class |-> 0, digest_algo |-> 3, pubkey_algo |-> al,
               keyid |-> KeyId, last |-> 1]] : al \in {PUBKEY_ALGO_RSA, PUBKEY_ALGO_DSA}}

OtherPackets ==
    {[pkttype |-> t, pkt |-> [flag |-> 0]] : t \in {PKT_RING_TRUST, 10}}

Packets ==
    UserIdPackets \cup CommentPackets \cup PublicCertPackets \cup SecretCertPackets
      \cup SymkeyEncPackets \cup PubkeyEncPackets \cup PlaintextPackets
      \cup EncryptedPackets \cup CompressedPackets \cup SignaturePackets
      \cup OnepassSigPackets \cup OtherPackets

EmptySig ==
    [hashed_data |-> <<>>, unhashed_data |-> <<>>, keyid |-> KeyId, timestamp |-> T0]

NoCall == [name |-> "none"]

----------------------------------------------------------------------------
(* The encoder: calls of build_packet and calc_packet_length on one sink *)

Init ==
    /\ out \in Sinks
    /\ last = NoCall
    /\ fatal = "none"
    /\ sig = EmptySig
    /\ hist = <<>>
    /\ calls = 0

BuildPacket ==
    /\ fatal = "none"
    /\ calls < MaxCalls
    /\ \E pkt \in Packets :
         \E no_comment \in IF pkt.pkttype \in {PKT_COMMENT, PKT_OLD_COMMENT}
                           THEN BOOLEAN ELSE {FALSE} :
           \E r \in {build_packet(out, pkt, no_comment)} :
               /\ out' = r.s
               /\ fatal' = r.fatal
               /\ last' = [name |-> "build_packet", pkt |-> pkt,
                           no_comment |-> no_comment, before |-> out,
                           rc |-> r.rc, opened |-> r.opened,
                           closed |-> r.closed, diag |-> r.diag]
    /\ calls' = calls + 1
    /\ UNCHANGED <<sig, hist>>

CalcPacketLength ==
    /\ fatal = "none"
    /\ calls < MaxCalls
    /\ \E pkt \in Packets :
         \E r \in {calc_packet_length(pkt)} :
             /\ fatal' = r.fatal
             /\ last' = [name |-> "calc_packet_length", pkt |-> pkt, n |-> r.n]
    /\ calls' = calls + 1
    /\ UNCHANGED <<out, sig, hist>>

Next == BuildPacket \/ CalcPacketLength

Spec == Init /\ [][Next]_vars

----------------------------------------------------------------------------
(* Properties of the encoder *)

Built == last.name = "build_packet"

(* the call returned to its caller (it did not end in log_bug or assert) *)
Returned == Built /\ fatal = "none"

(* some write to the real sink failed during the last call *)
WriteFailed == out.failed > last.before.failed

StagingTypes ==
    {PKT_PUBLIC_CERT, PKT_PUBKEY_SUBCERT, PKT_SECRET_CERT, PKT_SECKEY_SUBCERT,
     PKT_SYMKEY_ENC, PKT_PUBKEY_ENC, PKT_SIGNATURE, PKT_ONEPASS_SIG}

(* the packet carries an algorithm identifier outside the families its     *)
(* encoder knows                                                           *)
UnknownAlgorithm(pkt) ==
    \/ /\ pkt.pkttype \in {PKT_PUBLIC_CERT, PKT_PUBKEY_SUBCERT, PKT_SECRET_CERT,
                           PKT_SECKEY_SUBCERT, PKT_SIGNATURE}
       /\ pkt.pkt.pubkey_algo \notin {1, 2, 3, 16, 17, 20}
    \/ /\ pkt.pkttype = PKT_PUBKEY_ENC
       /\ pkt.pkt.pubkey_algo \notin {1, 2, 3, 16, 20}

(* C1 (as claimed): whenever a write to the real sink fails during         *)
(* build_packet, build_packet returns an error (a nonzero value).          *)
CE_C1 == (Returned /\ WriteFailed) => last.rc # 0

(* C5: build_packet on a public-cert, secret-cert, public-key session-key  *)
(* or signature packet with an unknown algorithm returns                   *)
(* G10ERR_PUBKEY_ALGO and leaves the real sink exactly as it was: no byte  *)
(* written and no write attempted.                                         *)
Thm_C5 ==
    (Built /\ UnknownAlgorithm(last.pkt)) =>
        /\ fatal = "none"
        /\ last.rc = G10ERR_PUBKEY_ALGO
        /\ out = last.before

Wit_C5 ==
    /\ Built
    /\ last.pkt.pkttype = PKT_SIGNATURE
    /\ last.pkt.pkt.pubkey_algo = 99
    /\ last.rc = G10ERR_PUBKEY_ALGO
    /\ out.mode = "sticky"

(* C6: whenever an encoder that stages its fields returns to its caller    *)
(* (success, unknown algorithm, failed flush), it has opened one staging   *)
(* buffer and closed it once: none is open after build_packet returns.     *)
Thm_C6 ==
    (Returned /\ last.pkt.pkttype \in StagingTypes) =>
        /\ last.opened = 1
        /\ last.closed = 1

Wit_C6 ==
    /\ Returned
    /\ last.pkt.pkttype = PKT_SECRET_CERT
    /\ last.rc = G10ERR_WRITE_FILE
    /\ last.closed = 1

(* C10 (as claimed): for a literal packet with declared length L > 0, a    *)
(* body source yielding exactly L bytes and a sink that never fails, the   *)
(* number of bytes build_packet writes equals calc_packet_length(packet),  *)
(* and that is (1+1+n+4+L) + calc_header_length(1+1+n+4+L) as a number.    *)
CE_C10 ==
    (/\ Returned
     /\ last.pkt.pkttype = PKT_PLAINTEXT
     /\ last.pkt.pkt.len # <<0, 0>>
     /\ last.pkt.pkt.src = last.pkt.pkt.len
     /\ out.mode = "none") =>
        SinkTotal(out) =
            wide_add(SinkTotal(last.before), calc_packet_length(last.pkt).n)

(* the block-mode framing calls the last call made, in order *)
Framing == SubSeq(out.blk, Len(last.before.blk) + 1, Len(out.blk))

PlaintextBuilt == Returned /\ last.pkt.pkttype = PKT_PLAINTEXT

(* C11 (as claimed): a literal packet with declared length 0 switches the  *)
(* sink to block framing of 8196 right after the ctb, before any other     *)
(* byte, and makes the end-marker call (size 0) exactly once, after the    *)
(* last body chunk, whatever the body source yielded; with a nonzero       *)
(* declared length the framing mode is never changed.  (The first part is  *)
(* taken for calls in which no write fails.)                               *)
CE_C11 ==
    PlaintextBuilt =>
        IF last.pkt.pkt.len = <<0, 0>>
        THEN /\ ~WriteFailed =>
                  /\ Len(Framing) = 2
                  /\ Framing[1] = [size |-> 8196,
                                   at |-> wide_add(SinkTotal(last.before), <<0, 1>>)]
             /\ Cardinality({i \in 1..Len(Framing) : Framing[i].size = 0}) = 1
             /\ Framing[Len(Framing)] = [size |-> 0, at |-> SinkTotal(out)]
        ELSE Framing = <<>>

(* the part of C11 that holds: the same, for packets whose header length   *)
(* 1+1+namelen+4+len does not wrap to 0                                    *)
C11_NoWrap ==
    (PlaintextBuilt
       /\ (last.pkt.pkt.len # <<0, 0>> => calc_plaintext(last.pkt.pkt) # <<0, 0>>))
    => CE_C11

----------------------------------------------------------------------------
(* The header codec on its own: calls of write_header2 on one sink *)

MaxHdrLen == 6

HdrSinks == {NewSink("none", 0), NewSink("once", 1), NewSink("sticky", 3)}

(* the ctb build_packet forms for a public certificate (old format) and    *)
(* for a comment (new format)                                              *)
HdrCtbs == {128 + ((PKT_PUBLIC_CERT % 16) * 4), 192 + (PKT_COMMENT % 64)}

HdrLens ==
    {<<0, 0>>, <<0, 1>>, <<0, 191>>, <<0, 192>>, <<0, 255>>, <<0, 256>>,
     <<0, 8383>>, <<0, 8384>>, <<0, 65535>>, <<1, 0>>, <<43981, 61185>>,
     <<65535, 65535>>}

InitHdr ==
    /\ out \in HdrSinks
    /\ last = NoCall
    /\ fatal = "none"
    /\ sig = EmptySig
    /\ hist = <<>>
    /\ calls = 0

WriteHeader2 ==
    /\ fatal = "none"
    /\ calls < MaxCalls
    /\ \E ctb \in HdrCtbs, len \in HdrLens, hdrlen \in 0..MaxHdrLen,
          blkmode \in {0, 1} :
         \E r \in {write_header2(out, ctb, len, hdrlen, blkmode)} :
           /\ out' = r.s
           /\ fatal' = r.fatal
           /\ last' = [name |-> "write_header2", ctb |-> ctb, len |-> len,
                       hdrlen |-> hdrlen, blkmode |-> blkmode, rc |-> r.rc,
                       before |-> out]
    /\ calls' = calls + 1
    /\ UNCHANGED <<sig, hist>>

NextHdr == WriteHeader2

SpecHdr == InitHdr /\ [][NextHdr]_vars

(* the bytes the last call appended to the sink *)
Emitted == SubSeq(out.buf, Len(last.before.buf) + 1, Len(out.buf))

HeaderWritten == last.name = "write_header2" /\ out.failed = last.before.failed

OldForced ==
    /\ HeaderWritten
    /\ (last.ctb \div 64) % 2 = 0
    /\ last.len # <<0, 0>>
    /\ last.hdrlen # 0

(* the requested width is one an old-format header has and it can hold len *)
WidthFits ==
    \/ last.hdrlen = 2 /\ last.len[1] = 0 /\ last.len[2] < 256
    \/ last.hdrlen = 3 /\ last.len[1] = 0
    \/ last.hdrlen = 5

(* the length bytes match the selector in the emitted ctb, and their       *)
(* big-endian value is len                                                 *)
LengthBytesExact ==
    LET e == Emitted
        sel == e[1] % 4
    IN  /\ e[1] \div 4 = last.ctb \div 4
        /\ \/ sel = 0 /\ Len(e) = 2 /\ last.len = <<0, e[2]>>
           \/ sel = 1 /\ Len(e) = 3 /\ last.len = <<0, e[2] * 256 + e[3]>>
           \/ sel = 2 /\ Len(e) = 5
                /\ last.len = <<e[2] * 256 + e[3], e[4] * 256 + e[5]>>

(* C7 (as claimed): the header has exactly hdrlen bytes when hdrlen is 2,  *)
(* 3 or 5 and can hold len, and is wider than hdrlen otherwise; the length *)
(* bytes match the selector and carry len.                                 *)
CE_C7 ==
    OldForced =>
        /\ IF WidthFits THEN Len(Emitted) = last.hdrlen
                        ELSE Len(Emitted) > last.hdrlen
        /\ LengthBytesExact

(* C7 (amended): the header has exactly hdrlen bytes when hdrlen is 2, 3   *)
(* or 5 and can hold len, and is the 5-byte header otherwise (wider than   *)
(* any hdrlen below 5, narrower than an hdrlen above 5); the length bytes  *)
(* match the selector and carry len.                                       *)
Thm_C7 ==
    OldForced =>
        /\ IF WidthFits THEN Len(Emitted) = last.hdrlen ELSE Len(Emitted) = 5
        /\ LengthBytesExact

Wit_C7 ==
    /\ OldForced
    /\ last.hdrlen = 2
    /\ last.len = <<1, 0>>
    /\ Len(Emitted) = 5

(* C8: the new-format writer emits, after the ctb, len itself when         *)
(* len < 192; b1, b2 with 192 <= b1 <= 223 and (b1-192)*256 + b2 + 192 =   *)
(* len when 192 <= len < 8384; 0xFF and the 4 big-endian bytes of len when *)
(* len >= 8384.  With a nonzero hdrlen it ends in the fatal condition      *)
(* having written nothing, with len = 0 having written the ctb only.       *)
Thm_C8 ==
    (HeaderWritten /\ (last.ctb \div 64) % 2 = 1) =>
        LET e == Emitted
            len == last.len
        IN  IF last.hdrlen # 0
            THEN fatal = "can't cope with hdrlen yet" /\ e = <<>>
            ELSE IF len = <<0, 0>>
            THEN fatal = "can't write partial headers yet" /\ e = <<last.ctb>>
            ELSE /\ fatal = "none"
                 /\ last.rc = 0
                 /\ e[1] = last.ctb
                 /\ IF len[1] = 0 /\ len[2] < 192
                    THEN Len(e) = 2 /\ e[2] = len[2]
                    ELSE IF len[1] = 0 /\ len[2] < 8384
                    THEN /\ Len(e) = 3
                         /\ e[2] >= 192 /\ e[2] <= 223
                         /\ e[3] \in 0..255
                         /\ (e[2] - 192) * 256 + e[3] + 192 = len[2]
                    ELSE /\ Len(e) = 6
                         /\ e[2] = 255
                         /\ \A i \in 3..6 : e[i] \in 0..255
                         /\ len = <<e[3] * 256 + e[4], e[5] * 256 + e[6]>>

Wit_C8 ==
    /\ HeaderWritten
    /\ (last.ctb \div 64) % 2 = 1
    /\ last.hdrlen = 0
    /\ last.len = <<0, 8383>>
    /\ Emitted = <<last.ctb, 223, 255>>

-----------------------------------------------------------------------------
(* Signature subpackets: build_sig_subpkt, build_sig_subpkt_from_sig and    *)
(* find_subpkt on one signature that starts with both regions absent        *)

MaxUpserts == 3

SubTypes ==
    {SIGSUBPKT_SIG_CREATED, 3, SIGSUBPKT_ISSUER,
     SIGSUBPKT_PRIV_ADD_SIG}

Filler(n) == [i \in 1..n |-> i % 256]

SubBodies ==
    {<<>>, <<18, 52, 86, 120>>, <<222, 173, 190, 239, 0, 1, 2, 3>>,
     Filler(190), Filler(191)}

(* what a read past the end of an allocation may yield *)
OobBytes == {0, 16}

Regions == {"hashed", "unhashed"}

RegionOf(sg, which) ==
    IF which = "hashed" THEN sg.hashed_data ELSE sg.unhashed_data

InitSub ==
    /\ out = NewSink("none", 0)
    /\ last = NoCall
    /\ fatal = "none"
    /\ sig = EmptySig
    /\ hist = <<>>
    /\ calls = 0

BuildSigSubpkt ==
    /\ fatal = "none"
    /\ calls < MaxUpserts
    /\ \E type \in SubTypes, buffer \in SubBodies, oob \in OobBytes :
         \E r \in {build_sig_subpkt(sig, type, buffer, oob)} :
             /\ sig' = r.sig
             /\ fatal' = r.fatal
             /\ hist' = IF r.fatal = "none"
                        THEN Append(hist, [type |-> type, body |-> buffer])
                        ELSE hist
             /\ last' = [name |-> "build_sig_subpkt", type |-> type,
                         buffer |-> buffer, before |-> sig,
                         dup |-> \E i \in 1..Len(hist) : hist[i].type = type]
    /\ calls' = calls + 1
    /\ UNCHANGED out

BuildSigSubpktFromSig ==
    /\ fatal = "none"
    /\ calls < MaxUpserts
    /\ \E oob \in OobBytes :
         \E r \in {build_sig_subpkt_from_sig(sig, oob)} :
             /\ sig' = r.sig
             /\ fatal' = r.fatal
             /\ hist' = hist
                   \o (IF RegionOf(r.sig, "unhashed") # RegionOf(sig, "unhashed")
                       THEN <<[type |-> SIGSUBPKT_ISSUER,
                               body |-> put_32(sig.keyid[1]) \o put_32(sig.keyid[2])]>>
                       ELSE <<>>)
                   \o (IF r.fatal = "none"
                       THEN <<[type |-> SIGSUBPKT_SIG_CREATED,
                               body |-> put_32(sig.timestamp)]>>
                       ELSE <<>>)
             /\ last' = [name |-> "build_sig_subpkt_from_sig", before |-> sig]
    /\ calls' = calls + 1
    /\ UNCHANGED out

FindTypes == SubTypes \cup {0}

FindSubpkt ==
    /\ fatal = "none"
    /\ \E which \in Regions, reqtype \in FindTypes, oob \in OobBytes :
         \E r \in {find_subpkt(RegionOf(sig, which), reqtype, oob)} :
             last' = [name |-> "find_subpkt", which |-> which, type |-> reqtype,
                      res |-> r,
                      body |-> IF r.kind = "found"
                               THEN found_body(RegionOf(sig, which), r)
                               ELSE <<>>]
    /\ UNCHANGED <<out, fatal, sig, hist, calls>>

NextSub == BuildSigSubpkt \/ BuildSigSubpktFromSig \/ FindSubpkt

SpecSub == InitSub /\ [][NextSub]_vars

(* the region build_sig_subpkt puts a type in *)
Routed(type) ==
    IF type \in {SIGSUBPKT_SIG_CREATED, SIGSUBPKT_PRIV_ADD_SIG}
    THEN "hashed" ELSE "unhashed"

DistinctTypes(h) ==
    \A i, j \in 1..Len(h) : i # j => h[i].type # h[j].type

RECURSIVE EntriesOf(_, _)
EntriesOf(h, which) ==
    IF h = <<>>
    THEN <<>>
    ELSE (IF Routed(Head(h).type) = which
          THEN <<Len(Head(h).body) + 1, Head(h).type>> \o Head(h).body
          ELSE <<>>) \o EntriesOf(Tail(h), which)

ExpectedRegion(h, which) ==
    LET e == EntriesOf(h, which)
    IN  IF e = <<>> THEN <<>> ELSE <<Len(e) \div 256, Len(e) % 256>> \o e

(* C2: after non-fatal inserts of distinct types into an empty signature,   *)
(* each non-empty region is its 2-byte big-endian total followed by exactly *)
(* the inserted entries in insertion order.  The code does not keep this.   *)
CE_C2 ==
    (fatal = "none" /\ DistinctTypes(hist)) =>
        \A which \in Regions : RegionOf(sig, which) = ExpectedRegion(hist, which)

(* C3: after non-fatal inserts, find_subpkt on the routed region of any     *)
(* inserted type returns the body passed to that insert, with 2 header      *)
(* bytes and the body's length.  The code does not keep this.               *)
CE_C3 ==
    (last.name = "find_subpkt" /\ DistinctTypes(hist)) =>
        \A i \in 1..Len(hist) :
            (hist[i].type = last.type /\ Routed(last.type) = last.which) =>
                /\ last.res.kind = "found"
                /\ last.res.hlen = 2
                /\ last.res.n = Len(hist[i].body)
                /\ last.body = hist[i].body

(* C4: an insert of a type that an earlier insert of the sequence put in    *)
(* ends in "update nyi" and leaves both regions as they were.  The code     *)
(* does not keep this.                                                      *)
CE_C4 ==
    (last.name = "build_sig_subpkt" /\ last.dup) =>
        /\ fatal = "build_sig_packet: update nyi"
        /\ sig = last.before

-----------------------------------------------------------------------------
(* find_subpkt on regions holding long-form entries *)

MaxEntries == 2

(* an entry as laid out in a region; "raw" is bytes that are no whole entry *)
EntryBytes(d) ==
    LET n == Len(d.body) + 1
    IN  CASE d.form = "short" -> <<n, d.type>> \o d.body
          [] d.form = "five"  ->
                <<255, 0, 0, n \div 256, n % 256, d.type>> \o d.body
          [] d.form = "two"   ->
                <<((n - 192) \div 256) + 192, (n - 192) % 256, d.type>> \o d.body
          [] OTHER -> d.body

CutLengths == {<<255, 0, 0>>, <<192>>}

Descs ==
    {[form |-> f, type |-> ty, body |-> b] :
        f \in {"short", "five"},
        ty \in {SIGSUBPKT_SIG_CREATED, SIGSUBPKT_ISSUER},
        b \in {<<>>, <<18, 52, 86, 120>>}}
    \cup {[form |-> "two", type |-> SIGSUBPKT_ISSUER, body |-> Filler(n)] :
             n \in {191, 193}}
    \cup {[form |-> "raw", type |-> 0, body |-> b] :
             b \in CutLengths \cup {<<255, 0, 0, 0, 0>>, <<255, 1, 0, 0, 0, 2>>}}

Layouts == UNION {[1..k -> Descs] : k \in 1..MaxEntries}

RECURSIVE LayoutBytes(_)
LayoutBytes(l) ==
    IF l = <<>> THEN <<>> ELSE EntryBytes(Head(l)) \o LayoutBytes(Tail(l))

LayoutRegion(l) ==
    LET e == LayoutBytes(l)
    IN  <<Len(e) \div 256, Len(e) % 256>> \o e

InitFind ==
    /\ out = NewSink("none", 0)
    /\ last = NoCall
    /\ fatal = "none"
    /\ hist \in Layouts
    /\ sig = [EmptySig EXCEPT !.hashed_data = LayoutRegion(hist)]
    /\ calls = 0

NextFind == FindSubpkt

SpecFind == InitFind /\ [][NextFind]_vars

FoundIn(form) ==
    /\ last.name = "find_subpkt"
    /\ last.which = "hashed"
    /\ Len(hist) >= 1
    /\ hist[1].form = form

-----------------------------------------------------------------------------
(* The primitive writers on their own: calls of write_16 and write_32 on a  *)
(* sink whose writes may fail                                               *)

MaxWrites == 2

WriteSinks ==
    {NewSink("none", 0)}
    \cup {NewSink(md, k) : md \in {"once", "sticky"}, k \in 1..4}

Values16 == {0, 258, 43981, 65535}

Values32 == {<<0, 0>>, <<258, 772>>, <<57005, 48879>>, <<65535, 65535>>}

InitWrite ==
    /\ out \in WriteSinks
    /\ last = NoCall
    /\ fatal = "none"
    /\ sig = EmptySig
    /\ hist = <<>>
    /\ calls = 0

Write16 ==
    /\ calls < MaxWrites
    /\ \E a \in Values16 :
         \E r \in {[s |-> write_16(out, a), rc |-> write_16_rc(out, a)]} :
             /\ out' = r.s
             /\ last' = [name |-> "write_16", before |-> out, rc |-> r.rc,
                         bytes |-> put_16(a)]
    /\ calls' = calls + 1
    /\ UNCHANGED <<fatal, sig, hist>>

Write32 ==
    /\ calls < MaxWrites
    /\ \E a \in Values32 :
         \E r \in {[s |-> write_32(out, a), rc |-> write_32_rc(out, a)]} :
             /\ out' = r.s
             /\ last' = [name |-> "write_32", before |-> out, rc |-> r.rc,
                         bytes |-> put_32(a)]
    /\ calls' = calls + 1
    /\ UNCHANGED <<fatal, sig, hist>>

NextWrite == Write16 \/ Write32

SpecWrite == InitWrite /\ [][NextWrite]_vars

Wrote == last.name \in {"write_16", "write_32"}

(* the single-byte writes of the last call that failed, by position *)
FailedPuts ==
    {i \in 1..Len(last.bytes) :
        WillFail([last.before EXCEPT !.ops = @ + (i - 1)])}

(* the bytes the last call of write_16 / write_32 appended to the sink *)
Written == SubSeq(out.buf, Len(last.before.buf) + 1, Len(out.buf))

(* C12 (as claimed): write_16 and write_32 fail whenever one of their      *)
(* single-byte writes fails, at whichever position, and write no byte      *)
(* after the first failed one; they succeed only when every byte write     *)
(* succeeded, and then the bytes written are the value in big-endian       *)
(* order.  The code looks at the last write only.                          *)
CE_C12 ==
    Wrote =>
        /\ FailedPuts # {} =>
              /\ last.rc # 0
              /\ \E f \in FailedPuts :
                    /\ \A g \in FailedPuts : f <= g
                    /\ Written = SubSeq(last.bytes, 1, f - 1)
        /\ last.rc = 0 => (FailedPuts = {} /\ Written = last.bytes)

(* what does hold: the result is that of the last single-byte write, every *)
(* byte whose write did not fail is written, and a call whose writes all   *)
(* succeed writes the value in big-endian order                            *)
C12_LastPutOnly ==
    Wrote =>
        /\ (last.rc # 0) <=> (Len(last.bytes) \in FailedPuts)
        /\ last.rc \in {0, -1}
        /\ Len(Written) = Len(last.bytes) - Cardinality(FailedPuts)
        /\ FailedPuts = {} => Written = last.bytes
        /\ out.ops = last.before.ops + Len(last.bytes)

====
